---- MODULE Spec2Model ----
(***************************************************************************)
(* A model of loggingtalk: the context-local log prefix (logging.py),      *)
(* the job aggregator (workload.py), the log record formatter (logging.py) *)
(* and the subprocess wrapper (subprocess.py).                             *)
(*                                                                         *)
(* Text is modelled as a sequence of atoms (strings); concatenation of     *)
(* Python strings is \o on those sequences.                                *)
(***************************************************************************)
EXTENDS Integers, Sequences, FiniteSets, TLC

VARIABLES
    mainPc,     \* do_stuff: "start", "gathering", "done", "failed"
    results,    \* what the await of asyncio.gather handed to do_stuff
    ctx,        \* value of the ContextVar _current_prefix in each Context
    frames,     \* per job: the live log_prefix generator frames, outermost first
    jobPc,      \* per job task: "unborn", "ready", "body", "done"
    outcome,    \* per job task: "pending", "success", "failure"
    observed,   \* per job: the prefix PrefixFilter.filter put on its last record
    cfg,        \* the keyword arguments configure_logging was called with
    registry,   \* FORMATS
    fpc,        \* the log call in progress: "idle", "logged"
    record,     \* the LogRecord of the log call
    sinkOut,    \* per handler: what the log call made it write
    useColor,   \* value of the ContextVar _use_color: "unset", "True", "False"
    diag,       \* lines getMessage printed to sys.stderr for the log call
    term,       \* a terminal showing styled segments
    runPc,      \* run: "start", "gather", "wait", "returned", "raised"
    exited,     \* the process: <<>> while it lives, <<c>> once it ended with code c
    returncode, \* proc.returncode: <<>> is None, <<c>> the exit code c
    written,    \* per stream: every byte written to it so far
    pipe,       \* per stream: the bytes in the pipe
    closed,     \* per stream: the write end is closed
    rbuf,       \* per stream: the buffer of the StreamReader
    reof,       \* per stream: the StreamReader was fed end of input
    pump,       \* per stream: "unborn", "reading", "done", "raised"
    buffer,     \* stdout_buffer and stderr_buffer
    logged,     \* per label: the texts of the stream-line records, in order
    advisory,   \* number of exit-code records logged
    result,     \* <<>> or <<the Result run returned>>
    audit,      \* a process launch seen by the audit hook and by the sinks
    deliver,    \* a record on its way from a logger to the three sinks
    runs        \* per job: the call of run it awaits, its pumps and its records

prefixVars == <<mainPc, results, ctx, frames, jobPc, outcome, observed>>

fmtVars == <<cfg, registry, fpc, record, sinkOut, useColor, diag>>

styleVars == <<term>>

runVars == <<runPc, exited, returncode, written, pipe, closed, rbuf, reof, pump, buffer, logged,
             advisory, result>>

auditVars == <<audit>>

levelVars == <<deliver>>

jobRunVars == <<runs>>

vars == <<prefixVars, fmtVars, styleVars, runVars, auditVars, levelVars, jobRunVars>>

notPrefix == <<fmtVars, styleVars, runVars, auditVars, levelVars, jobRunVars>>

notFmt == <<prefixVars, styleVars, runVars, auditVars, levelVars, jobRunVars>>

notStyle == <<prefixVars, fmtVars, runVars, auditVars, levelVars, jobRunVars>>

notRun == <<prefixVars, fmtVars, styleVars, auditVars, levelVars, jobRunVars>>

notAudit == <<prefixVars, fmtVars, styleVars, runVars, levelVars, jobRunVars>>

notLevel == <<prefixVars, fmtVars, styleVars, runVars, auditVars, jobRunVars>>

notJobRun == <<fmtVars, styleVars, runVars, auditVars, levelVars>>

----------------------------------------------------------------------------
(* Bounds *)

\* number of jobs handed to asyncio.gather (the demo hands four)
NJobs == 2

\* deepest nesting of log_prefix scopes in one task (run_job's own included)
MaxDepth == 2

\* longest message template, in pieces
MaxTpl == 2

\* most positional arguments of a log call
MaxArgs == 2

\* most registrations with format_in_logs after import
MaxRegistrations == 1

\* most bytes written to one stream of the child
MaxOut == 2

\* capacity of a pipe, in bytes
PipeCap == 1

\* limit of the StreamReader, in bytes (asyncio's default is 2 ** 16)
Limit == 1

\* most elements of the argument list of a launched command
MaxArgv == 2

----------------------------------------------------------------------------
(* Context-local prefix: logging.py 76-94 *)

\* the ContextVar has no value in this Context
Missing == <<"<missing>">>

\* job.__name__ of the coroutines do_stuff gathers, in order
JobNames == <<"numbers", "job2", "useful_work", "complex_shell", "job5", "job6">>

Jobs == 1..NJobs

\* f"[{name}] "
RunJobPrefix(j) == <<"[", JobNames[j], "] ">>

\* text of a scope opened by a job body inside run_job's scope
NestedPrefix == <<"sub: ">>

\* the Context a task runs in: asyncio.gather wraps every coroutine in a Task,
\* and a Task runs in its own copy of the Context that created it; 0 is the
\* Context of the task running do_stuff
SharedContext(j) == 0

TaskContext(j) == j

Contexts == {0} \cup {TaskContext(j) : j \in Jobs}

\* _current_prefix.get("")
PrefixGet(c) == IF ctx[c] = Missing THEN <<>> ELSE ctx[c]

\* log_prefix up to its yield: the frame keeps the argument and the token;
\* the token of ContextVar.set remembers the value (or its absence) before
EnterOverwrites(c, prefix) ==
    [frame |-> [prefix |-> prefix, token |-> ctx[c]],
     value |-> prefix]

LogPrefixEnter(c, prefix) ==
    [frame |-> [prefix |-> prefix, token |-> ctx[c]],
     value |-> PrefixGet(c) \o prefix]

\* the finally clause: _current_prefix.reset(token) puts back the value the
\* token remembers (a Missing token removes the variable again)
ExitKeepsPrefix(cur, frame) == cur

LogPrefixExit(cur, frame) == frame.token

\* the reset written after the yield without try/finally: an exception skips it
NoFinally(cur, fs) == cur

\* an exception leaving the body of nested with-blocks runs every finally
\* clause, innermost first
RECURSIVE Unwind(_, _)
Unwind(cur, fs) ==
    IF fs = <<>> THEN cur
    ELSE Unwind(LogPrefixExit(cur, fs[Len(fs)]), SubSeq(fs, 1, Len(fs) - 1))

\* an exception thrown into log_prefix at its yield leaves it again after the
\* finally clause: nothing catches it
Propagates(raised) == raised

\* PrefixFilter.filter: record.prefix
FilterPrefix(c) == PrefixGet(c)

----------------------------------------------------------------------------
(* Aggregator: workload.py 29-62 *)

\* asyncio.gather(..., return_exceptions=True)
AbortOnFirstFailure == FALSE

ReturnExceptions == TRUE

InitPrefix ==
    /\ mainPc = "start"
    /\ results = <<>>
    /\ ctx = [c \in Contexts |-> Missing]
    /\ frames = [j \in Jobs |-> <<>>]
    /\ jobPc = [j \in Jobs |-> "unborn"]
    /\ outcome = [j \in Jobs |-> "pending"]
    /\ observed = [j \in Jobs |-> [seen |-> FALSE, prefix |-> <<>>]]

\* do_stuff reaches asyncio.gather: one Task per job, each with a copy of the
\* current Context
Gather ==
    /\ mainPc = "start"
    /\ mainPc' = "gathering"
    /\ jobPc' = [j \in Jobs |-> "ready"]
    /\ ctx' = [c \in Contexts |-> ctx[0]]
    /\ UNCHANGED <<results, frames, outcome, observed>>
    /\ UNCHANGED notPrefix

\* run_job: with log_prefix(f"[{name}] "), up to the await of job()
RunJobEnter(j) ==
    /\ jobPc[j] = "ready"
    /\ LET e == LogPrefixEnter(TaskContext(j), RunJobPrefix(j)) IN
        /\ frames' = [frames EXCEPT ![j] = <<e.frame>>]
        /\ ctx' = [ctx EXCEPT ![TaskContext(j)] = e.value]
    /\ jobPc' = [jobPc EXCEPT ![j] = "body"]
    /\ UNCHANGED <<mainPc, results, outcome, observed>>
    /\ UNCHANGED notPrefix

\* the job body opens a further log_prefix scope
NestedEnter(j) ==
    /\ jobPc[j] = "body"
    /\ Len(frames[j]) < MaxDepth
    /\ LET e == LogPrefixEnter(TaskContext(j), NestedPrefix) IN
        /\ frames' = [frames EXCEPT ![j] = Append(@, e.frame)]
        /\ ctx' = [ctx EXCEPT ![TaskContext(j)] = e.value]
    /\ UNCHANGED <<mainPc, results, jobPc, outcome, observed>>
    /\ UNCHANGED notPrefix

\* the job body leaves its innermost scope normally
NestedExit(j) ==
    /\ jobPc[j] = "body"
    /\ Len(frames[j]) > 1
    /\ LET f == frames[j][Len(frames[j])] IN
        ctx' = [ctx EXCEPT ![TaskContext(j)] = LogPrefixExit(@, f)]
    /\ frames' = [frames EXCEPT ![j] = SubSeq(@, 1, Len(@) - 1)]
    /\ UNCHANGED <<mainPc, results, jobPc, outcome, observed>>
    /\ UNCHANGED notPrefix

\* the job body logs a record: every handler's PrefixFilter reads the prefix
\* in the Context of the logging task
JobLog(j) ==
    /\ jobPc[j] = "body"
    /\ observed' = [observed EXCEPT
                       ![j] = [seen |-> TRUE, prefix |-> FilterPrefix(TaskContext(j))]]
    /\ UNCHANGED <<mainPc, results, ctx, frames, jobPc, outcome>>
    /\ UNCHANGED notPrefix

\* job() returns: run_job leaves its with-block and returns the result
JobReturn(j) ==
    /\ jobPc[j] = "body"
    /\ Len(frames[j]) = 1
    /\ ctx' = [ctx EXCEPT ![TaskContext(j)] = LogPrefixExit(@, frames[j][1])]
    /\ frames' = [frames EXCEPT ![j] = <<>>]
    /\ jobPc' = [jobPc EXCEPT ![j] = "done"]
    /\ outcome' = [outcome EXCEPT ![j] = "success"]
    /\ UNCHANGED <<mainPc, results, observed>>
    /\ UNCHANGED notPrefix

\* job() raises at any point of its body: the exception leaves every open
\* with-block and then run_job, and becomes the outcome of the Task
JobRaise(j) ==
    /\ jobPc[j] = "body"
    /\ ctx' = [ctx EXCEPT ![TaskContext(j)] = Unwind(@, frames[j])]
    /\ frames' = [frames EXCEPT ![j] = <<>>]
    /\ jobPc' = [jobPc EXCEPT ![j] = "done"]
    /\ outcome' = [outcome EXCEPT
                      ![j] = IF Propagates(TRUE) THEN "failure" ELSE "success"]
    /\ UNCHANGED <<mainPc, results, observed>>
    /\ UNCHANGED notPrefix

\* the await of asyncio.gather completes. With return_exceptions=True that is
\* when every Task is done, and it hands back one result or exception per
\* Task; without it the first exception of a Task is raised into do_stuff at
\* once, while the other Tasks keep running
GatherReady ==
    IF ReturnExceptions
    THEN \A j \in Jobs : jobPc[j] = "done"
    ELSE \/ \E j \in Jobs : outcome[j] = "failure"
         \/ \A j \in Jobs : outcome[j] = "success"

GatherDone ==
    /\ mainPc = "gathering"
    /\ GatherReady
    /\ IF ReturnExceptions \/ \A j \in Jobs : outcome[j] = "success"
       THEN /\ mainPc' = "done"
            /\ results' = [j \in Jobs |-> outcome[j]]
       ELSE /\ mainPc' = "failed"
            /\ results' = <<>>
    /\ UNCHANGED <<ctx, frames, jobPc, outcome, observed>>
    /\ UNCHANGED notPrefix

NextPrefix ==
    \/ Gather
    \/ \E j \in Jobs : RunJobEnter(j)
    \/ \E j \in Jobs : NestedEnter(j)
    \/ \E j \in Jobs : NestedExit(j)
    \/ \E j \in Jobs : JobLog(j)
    \/ \E j \in Jobs : JobReturn(j)
    \/ \E j \in Jobs : JobRaise(j)
    \/ GatherDone

----------------------------------------------------------------------------
(* Style engine: logging.py 97-154 *)

\* Color.value of red, green, yellow, blue, magenta, cyan; 0 is color=None
Colors == 1..6

\* a Format: the dataclass fields
Format(color, bold, dim, italic, underlined) ==
    [color |-> color, bold |-> bold, dim |-> dim, italic |-> italic,
     underlined |-> underlined]

\* Format()
NoFormat == Format(0, FALSE, FALSE, FALSE, FALSE)

\* the emphasis flags in the order make_formatter tests them
Flags == <<"bold", "dim", "italic", "underlined">>

\* "\x1b["
CSI == "ESC["

\* f"3{self.color.value}"
ColorCode(c) == <<"31", "32", "33", "34", "35", "36">>[c]

ColorReset == "39"

\* what each flag appends to parts
SetCode(flag) ==
    CASE flag = "bold" -> "1"
      [] flag = "dim" -> "2"
      [] flag = "italic" -> "3"
      [] flag = "underlined" -> "4"

\* the underline reset typed as the italic one
ResetCodeSlip(flag) ==
    CASE flag = "bold" -> "22"
      [] flag = "dim" -> "22"
      [] flag = "italic" -> "23"
      [] flag = "underlined" -> "23"

\* what each flag appends to reset_parts
ResetCode(flag) ==
    CASE flag = "bold" -> "22"
      [] flag = "dim" -> "22"
      [] flag = "italic" -> "23"
      [] flag = "underlined" -> "24"

RECURSIVE FlagParts(_, _, _)
FlagParts(fmt, i, reset) ==
    IF i > Len(Flags) THEN <<>>
    ELSE (IF fmt[Flags[i]]
          THEN <<IF reset THEN ResetCode(Flags[i]) ELSE SetCode(Flags[i])>>
          ELSE <<>>) \o FlagParts(fmt, i + 1, reset)

\* parts and reset_parts of make_formatter
Parts(fmt) ==
    (IF fmt.color # 0 THEN <<ColorCode(fmt.color)>> ELSE <<>>) \o FlagParts(fmt, 1, FALSE)

ResetParts(fmt) ==
    (IF fmt.color # 0 THEN <<ColorReset>> ELSE <<>>) \o FlagParts(fmt, 1, TRUE)

\* ';'.join(parts)
RECURSIVE Join(_)
Join(parts) ==
    IF Len(parts) <= 1 THEN parts
    ELSE <<parts[1], ";">> \o Join(Tail(parts))

\* escape and reset of make_formatter
Escape(fmt) == <<CSI>> \o Join(Parts(fmt)) \o <<"m">>

Reset(fmt) == <<CSI>> \o Join(ResetParts(fmt)) \o <<"m">>

\* a formatter that forgets the reset
FormatterNoReset(fmt, s) ==
    IF Parts(fmt) = <<>> THEN s ELSE Escape(fmt) \o s

\* the function make_formatter returns, applied to s: str when no attribute
\* is set, else escape + s + reset
MakeFormatter(fmt, s) ==
    IF Parts(fmt) = <<>> THEN s ELSE Escape(fmt) \o s \o Reset(fmt)

----------------------------------------------------------------------------
(* Values, Formatted, the registry: logging.py 157-216 *)

\* the newline character, and the glyph Formatter.format puts in its place
NL == "<LF>"

Glyph == "<NL-glyph>"

\* a log argument that is no Formatted: its class and its str() text
Plain(cls, text) == [kind |-> "plain", cls |-> cls, text |-> text, format |-> NoFormat]

\* Format.apply: Formatted(value, self)
Apply(fmt, v) == [kind |-> "Formatted", cls |-> v.cls, text |-> v.text, format |-> fmt]

\* Formatted.activate: _ActivatedFormatted(self.value, self.formatter)
Activate(f) == [kind |-> "Activated", cls |-> f.cls, text |-> f.text, format |-> f.format]

\* repr() of the wrapped value: quoted, a newline of a str written as \n
ReprText(o) ==
    <<"'">> \o [i \in 1..Len(o.text) |-> IF o.text[i] = NL THEN "\\n" ELSE o.text[i]]
            \o <<"'">>

\* Formatted.__str__ that applies its formatter itself, whatever the sink
StrAlwaysStyled(o) ==
    IF o.kind \in {"Activated", "Formatted"} THEN MakeFormatter(o.format, o.text)
    ELSE o.text

\* str(o): _ActivatedFormatted.__str__ applies the formatter, Formatted.__str__
\* and a plain value give the text of the value
Str(o) ==
    IF o.kind = "Activated" THEN MakeFormatter(o.format, o.text) ELSE o.text

\* repr(o), likewise
Repr(o) ==
    IF o.kind = "Activated" THEN MakeFormatter(o.format, ReprText(o)) ELSE ReprText(o)

\* isinstance(value, cls): a Path is always an instance of a subclass of Path
IsInstance(vcls, cls) == vcls = cls \/ (vcls = "PosixPath" /\ cls = "Path")

\* FORMATS after the module is imported: the two literal entries and the one
\* the decorator on SubprocessArgs appends
FORMATS0 ==
    <<[cls |-> "datetime", format |-> Format(3, FALSE, FALSE, FALSE, FALSE)],
      [cls |-> "Path", format |-> Format(6, FALSE, FALSE, FALSE, FALSE)],
      [cls |-> "SubprocessArgs", format |-> Format(0, FALSE, TRUE, FALSE, FALSE)]>>

\* a lookup in which the entry registered last wins
LastMatch(reg, vcls) ==
    LET hits == {i \in 1..Len(reg) : IsInstance(vcls, reg[i].cls)} IN
    IF hits = {} THEN 0 ELSE CHOOSE i \in hits : \A k \in hits : i >= k

\* index of the first entry of the registry the value is an instance of, or 0
FirstMatch(reg, vcls) ==
    LET hits == {i \in 1..Len(reg) : IsInstance(vcls, reg[i].cls)} IN
    IF hits = {} THEN 0 ELSE CHOOSE i \in hits : \A k \in hits : i <= k

\* _format_arg that never looks at the registry
FormatArgNoRegistry(arg, reg) ==
    IF arg.kind = "Formatted" THEN Activate(arg) ELSE arg

\* _format_arg
FormatArg(arg, reg) ==
    IF arg.kind = "Formatted" THEN Activate(arg)
    ELSE LET m == FirstMatch(reg, arg.cls) IN
         IF m = 0 THEN arg
         ELSE [kind |-> "Activated", cls |-> arg.cls, text |-> arg.text,
               format |-> reg[m].format]

----------------------------------------------------------------------------
(* The % operator of str, as far as log calls use it *)

\* the conversions that take the next positional argument: str, repr, and
\* str cut to a precision of two characters
PositionalConversions == {"%s", "%r", "%.2s"}

\* the first two characters of a piece of text that has more than two
TwoOf(a) ==
    CASE a = "/etc/lib.conf" -> "/e"
      [] a = "/usr" -> "/u"
      [] a = "cfg" -> "cf"
      [] a = "{'k': ...}" -> "{'"
      [] OTHER -> a

\* the pieces of text that are one character
OneChar(a) == a \in {"a", "b", "n", "x", "'", ";", "m", "1", "2", "3", "4", NL}

\* s[:2], which %.2s leaves of the str of its argument: whatever the first
\* two characters are, those of an escape sequence included
FirstTwoChars(text) ==
    IF text = <<>> THEN <<>>
    ELSE IF ~OneChar(text[1]) THEN <<TwoOf(text[1])>>
    ELSE IF Len(text) = 1 THEN text
    ELSE IF OneChar(text[2]) THEN <<text[1], text[2]>>
    ELSE <<text[1], "<1 of " \o text[2] \o ">">>

\* the text one conversion produces
Convert(item, o) ==
    IF item = "%r" THEN Repr(o)
    ELSE IF item = "%.2s" THEN FirstTwoChars(Str(o))
    ELSE Str(o)

\* str() of a dict given as the only argument
DictText == <<"{'k': ...}">>

\* msg % tuple: every %s, %r and %.2s takes the next item; too few or too many
\* items, or a %(k)s, raise TypeError
RECURSIVE PercentTuple(_, _, _, _)
PercentTuple(tpl, i, items, n) ==
    IF i > Len(tpl)
    THEN [raised |-> n # Len(items), text |-> <<>>]
    ELSE IF tpl[i] \in PositionalConversions
    THEN IF n >= Len(items) THEN [raised |-> TRUE, text |-> <<>>]
         ELSE LET rest == PercentTuple(tpl, i + 1, items, n + 1) IN
              [raised |-> rest.raised,
               text |-> Convert(tpl[i], items[n + 1]) \o rest.text]
    ELSE IF tpl[i] = "%(k)s"
    THEN [raised |-> TRUE, text |-> <<>>]
    ELSE LET rest == PercentTuple(tpl, i + 1, items, n) IN
         [raised |-> rest.raised, text |-> <<tpl[i]>> \o rest.text]

\* msg % dict: %(k)s takes the value of the key; a %s, %r or %.2s takes the dict
\* itself when it is the first conversion and raises TypeError otherwise;
\* unused keys are no error
RECURSIVE PercentDict(_, _, _, _)
PercentDict(tpl, i, value, avail) ==
    IF i > Len(tpl)
    THEN [raised |-> FALSE, text |-> <<>>]
    ELSE IF tpl[i] \in PositionalConversions
    THEN IF ~avail THEN [raised |-> TRUE, text |-> <<>>]
         ELSE LET rest == PercentDict(tpl, i + 1, value, FALSE) IN
              [raised |-> rest.raised,
               text |-> (IF tpl[i] = "%.2s" THEN FirstTwoChars(DictText) ELSE DictText)
                            \o rest.text]
    ELSE IF tpl[i] = "%(k)s"
    THEN LET rest == PercentDict(tpl, i + 1, value, FALSE) IN
         [raised |-> rest.raised, text |-> Str(value) \o rest.text]
    ELSE LET rest == PercentDict(tpl, i + 1, value, avail) IN
         [raised |-> rest.raised, text |-> <<tpl[i]>> \o rest.text]

\* msg % args for the two shapes a log call gives args
Percent(tpl, args) ==
    IF args.kind = "tuple" THEN PercentTuple(tpl, 1, args.items, 0)
    ELSE PercentDict(tpl, 1, args.items[1], TRUE)

----------------------------------------------------------------------------
(* Log records and the Formatter: logging.py 18-73, 219-241, 272-293 *)

\* asctime, levelname and the separators of fmt, before the prefix
Header == <<"<asctime>", " ", "<levelname>", ": ">>

\* logging.setLogRecordFactory(FormattingLogRecord) only if colors
RecordFactory(c) == IF c.colors THEN "FormattingLogRecord" ELSE "LogRecord"

\* the handlers in the order they are added to the root logger
Handlers == <<"file_handler", "plain_handler", "stderr_handler">>

\* include_color_escapes of the handler's Formatter
IncludeEscapes(h, c) == IF h = "plain_handler" THEN FALSE ELSE c.colors

\* _use_color.get(False)
UseColorGet(uc) == uc = "True"

\* bool(self.args) of logging.LogRecord.getMessage
Truthy(args) == args.kind = "dict" \/ (args.kind = "tuple" /\ args.items # <<>>)

RECURSIVE MapFormatArg(_, _)
MapFormatArg(items, reg) ==
    IF items = <<>> THEN <<>>
    ELSE <<FormatArg(Head(items), reg)>> \o MapFormatArg(Tail(items), reg)

\* the dict and tuple branches of FormattingLogRecord.getMessage
TypedGetMessage(rec, reg, uc) ==
    IF rec.args.kind = "dict"
    THEN LET r == Percent(rec.msg, rec.args) IN
         [raised |-> r.raised, text |-> r.text, diag |-> 0]
    ELSE LET r == IF UseColorGet(uc)
                  THEN Percent(rec.msg,
                               [kind |-> "tuple",
                                items |-> MapFormatArg(rec.args.items, reg)])
                  ELSE Percent(rec.msg, rec.args) IN
         [raised |-> r.raised, text |-> r.text, diag |-> 0]

\* a getMessage that raises for args that are neither a dict nor a tuple
GetMessageRaisesOnOther(rec, reg, uc) ==
    IF rec.args.kind \in {"dict", "tuple"}
    THEN TypedGetMessage(rec, reg, uc)
    ELSE [raised |-> TRUE, text |-> <<>>, diag |-> 0]

\* FormattingLogRecord.getMessage under the given value of _use_color: args
\* that are neither a dict nor a tuple are reported with print(...,
\* file=sys.stderr) and the message is str(self.msg) as it stands
FormattingGetMessage(rec, reg, uc) ==
    IF rec.args.kind \in {"dict", "tuple"}
    THEN TypedGetMessage(rec, reg, uc)
    ELSE [raised |-> FALSE, text |-> rec.msg, diag |-> 1]

\* logging.LogRecord.getMessage, the factory left in place without colors
StockGetMessage(rec) ==
    IF Truthy(rec.args)
    THEN LET r == Percent(rec.msg, rec.args) IN
         [raised |-> r.raised, text |-> r.text, diag |-> 0]
    ELSE [raised |-> FALSE, text |-> rec.msg, diag |-> 0]

GetMessage(rec, reg, uc) ==
    IF rec.factory = "FormattingLogRecord"
    THEN FormattingGetMessage(rec, reg, uc)
    ELSE StockGetMessage(rec)

\* a str that keeps its newlines
KeepNewlines(s) == s

\* s.replace("\n", glyph)
ReplaceNewlines(s) == [i \in 1..Len(s) |-> IF s[i] = NL THEN Glyph ELSE s[i]]

\* a Formatter that sets _use_color whatever its include_color_escapes
SetsColorAlways(h, c) == "True"

\* the value Formatter.format sets _use_color to
UseColorSet(h, c) == IF IncludeEscapes(h, c) THEN "True" ELSE "False"

\* Formatter.format of handler h: set _use_color, format the record with fmt
\* (the message comes from record.getMessage()), reset _use_color in the
\* finally clause, then replace the newlines
FormatterFormat(h, c, rec, reg, uc) ==
    LET m == GetMessage(rec, reg, UseColorSet(h, c))
        s == Header \o (IF c.prefixes THEN rec.prefix ELSE <<>>) \o m.text
    IN [raised |-> m.raised,
        line |-> IF m.raised THEN <<>>
                 ELSE IF c.replace_newlines THEN ReplaceNewlines(s) ELSE s,
        diag |-> m.diag,
        useColor |-> uc]

\* Handler.emit: the line is written unless format raised
Emit(r) ==
    [status |-> IF r.raised THEN "raised" ELSE "written", line |-> r.line]

NoArgs == [kind |-> "tuple", items |-> <<>>]

NoRecord == [msg |-> <<>>, args |-> NoArgs, prefix |-> <<>>, factory |-> "none"]

NoOutput == [h \in 1..Len(Handlers) |-> [status |-> "none", line |-> <<>>]]

----------------------------------------------------------------------------
(* Log calls: the inputs and the actions of the formatter *)

\* the pieces a message template is made of: literal text, a newline, and
\* conversions
TplItems == {"x", NL, "%s", "%r", "%.2s", "%(k)s"}

Templates == UNION {[1..n -> TplItems] : n \in 0..MaxTpl}

\* the arguments of log calls: a str with a newline in it, a Path (which the
\* registry styles), and values wrapped with Format.apply
ArgValues ==
    {Plain("str", <<"a", NL, "b">>),
     Plain("PosixPath", <<"/etc/lib.conf">>),
     Apply(Format(0, FALSE, TRUE, TRUE, FALSE), Plain("str", <<"cfg">>)),
     Apply(NoFormat, Plain("str", <<"n">>)),
     Apply(Format(5, TRUE, FALSE, FALSE, FALSE), Plain("PosixPath", <<"/usr">>))}

ArgTuples == UNION {[1..n -> ArgValues] : n \in 0..MaxArgs}

\* record.args: the tuple of positional arguments, the single dict {"k": v},
\* or an object that is neither (None, as logging.handlers.QueueHandler leaves)
LogArgs ==
    {[kind |-> "tuple", items |-> t] : t \in ArgTuples}
        \cup {[kind |-> "dict", items |-> <<v>>] : v \in ArgValues}
        \cup {[kind |-> "other", items |-> <<>>]}

\* what format_in_logs may still register after import: a class the registry
\* does not know, and a class whose values an earlier entry already matches
Registrable ==
    {[cls |-> "str", format |-> Format(0, FALSE, FALSE, FALSE, TRUE)],
     [cls |-> "PosixPath", format |-> Format(0, TRUE, FALSE, FALSE, FALSE)]}

\* the keyword arguments of configure_logging that shape the formatters
Configs == [colors : BOOLEAN, prefixes : BOOLEAN, replace_newlines : BOOLEAN]

\* the defaults of configure_logging
DefaultConfig == [colors |-> TRUE, prefixes |-> TRUE, replace_newlines |-> TRUE]

IdleFmt ==
    /\ registry = FORMATS0
    /\ fpc = "idle"
    /\ record = NoRecord
    /\ sinkOut = NoOutput
    /\ useColor = "unset"
    /\ diag = 0

InitFmt ==
    /\ cfg \in Configs
    /\ IdleFmt

\* format_in_logs(**kwargs)(type): FORMATS.append((type, format))
Register(e) ==
    /\ fpc = "idle"
    /\ Len(registry) < Len(FORMATS0) + MaxRegistrations
    /\ registry' = Append(registry, e)
    /\ UNCHANGED <<cfg, fpc, record, sinkOut, useColor, diag>>
    /\ UNCHANGED notFmt

\* logger.info(msg, *args) and the like: the record is made by the factory,
\* then every handler filters it (PrefixFilter), formats it and emits it, in
\* the order the handlers were added
LogCall(tpl, args) ==
    /\ fpc = "idle"
    /\ LET rec == [msg |-> tpl, args |-> args, prefix |-> RunJobPrefix(1),
                   factory |-> RecordFactory(cfg)]
           h1 == FormatterFormat(Handlers[1], cfg, rec, registry, useColor)
           h2 == FormatterFormat(Handlers[2], cfg, rec, registry, h1.useColor)
           h3 == FormatterFormat(Handlers[3], cfg, rec, registry, h2.useColor)
       IN /\ record' = rec
          /\ sinkOut' = <<Emit(h1), Emit(h2), Emit(h3)>>
          /\ useColor' = h3.useColor
          /\ diag' = h1.diag + h2.diag + h3.diag
    /\ fpc' = "logged"
    /\ UNCHANGED <<cfg, registry>>
    /\ UNCHANGED notFmt

\* the log call returns to its caller
LogReturn ==
    /\ fpc = "logged"
    /\ fpc' = "idle"
    /\ record' = NoRecord
    /\ sinkOut' = NoOutput
    /\ diag' = 0
    /\ UNCHANGED <<cfg, registry, useColor>>
    /\ UNCHANGED notFmt

NextFmt ==
    \/ \E e \in Registrable : Register(e)
    \/ \E tpl \in Templates : \E args \in LogArgs : LogCall(tpl, args)
    \/ LogReturn

----------------------------------------------------------------------------
(* What a terminal shows: the SGR parameters of make_formatter, read back *)

AllFormats ==
    {Format(c, b, d, i, u) :
        c \in {0} \cup Colors, b \in BOOLEAN, d \in BOOLEAN, i \in BOOLEAN, u \in BOOLEAN}

FlagSet == {Flags[i] : i \in 1..Len(Flags)}

\* the attributes of a Format that are set
FlagsOf(fmt) == {f \in FlagSet : fmt[f]}

\* one SGR parameter: a code of parts turns its attribute on, a code of
\* reset_parts turns off every attribute it is the reset of
ApplyCode(st, code) ==
    IF \E c \in Colors : ColorCode(c) = code
    THEN [st EXCEPT !.color = CHOOSE c \in Colors : ColorCode(c) = code]
    ELSE IF code = ColorReset
    THEN [st EXCEPT !.color = 0]
    ELSE [st EXCEPT !.flags = (@ \ {f \in FlagSet : ResetCode(f) = code})
                                  \cup {f \in FlagSet : SetCode(f) = code}]

\* the characters of a line with the attributes each is shown with
RECURSIVE Cells(_, _, _, _)
Cells(line, i, st, inEscape) ==
    IF i > Len(line) THEN <<>>
    ELSE IF inEscape
    THEN IF line[i] = "m" THEN Cells(line, i + 1, st, FALSE)
         ELSE IF line[i] = ";" THEN Cells(line, i + 1, st, TRUE)
         ELSE Cells(line, i + 1, ApplyCode(st, line[i]), TRUE)
    ELSE IF line[i] = CSI THEN Cells(line, i + 1, st, TRUE)
    ELSE <<[ch |-> line[i], color |-> st.color, flags |-> st.flags]>>
             \o Cells(line, i + 1, st, FALSE)

Shown(line) == Cells(line, 1, [color |-> 0, flags |-> {}], FALSE)

IdleStyle == term = [pc |-> "idle", outer |-> NoFormat, inner |-> NoFormat, cells |-> <<>>]

InitStyle == IdleStyle

\* a segment styled with inner inside the text of a segment styled with outer
RenderNested(outer, inner) ==
    /\ term.pc = "idle"
    /\ term' = [pc |-> "nested", outer |-> outer, inner |-> inner,
                cells |-> Shown(MakeFormatter(outer,
                              <<"o">> \o MakeFormatter(inner, <<"i">>) \o <<"p">>)
                                \o <<"z">>)]
    /\ UNCHANGED notStyle

\* a segment styled with inner right after a segment styled with outer
RenderAdjacent(outer, inner) ==
    /\ term.pc = "idle"
    /\ term' = [pc |-> "adjacent", outer |-> outer, inner |-> inner,
                cells |-> Shown(MakeFormatter(outer, <<"o">>)
                                \o MakeFormatter(inner, <<"i">>) \o <<"z">>)]
    /\ UNCHANGED notStyle

\* the terminal is cleared
TermClear ==
    /\ term.pc # "idle"
    /\ term' = [pc |-> "idle", outer |-> NoFormat, inner |-> NoFormat, cells |-> <<>>]
    /\ UNCHANGED notStyle

NextStyle ==
    \/ \E a \in AllFormats : \E b \in AllFormats : RenderNested(a, b)
    \/ \E a \in AllFormats : \E b \in AllFormats : RenderAdjacent(a, b)
    \/ TermClear

----------------------------------------------------------------------------
(* The subprocess wrapper: subprocess.py 19-58 *)

\* the labels of the two pumps
Streams == {"stdout", "stderr"}

\* the bytes a child writes: a newline or any other byte
Bytes == {"x", NL}

\* exit codes a child ends with
ExitCodes == {0, 3}

\* index of the first newline of a byte sequence, or 0
FirstNL(b) ==
    LET hits == {i \in 1..Len(b) : b[i] = NL} IN
    IF hits = {} THEN 0 ELSE CHOOSE i \in hits : \A k \in hits : i <= k

\* await stream.readline() on the given buffer of the StreamReader: a line up
\* to its newline, at end of input what is left (b"" when nothing is), and
\* ValueError when more than the limit precedes the newline or no newline is
\* in a buffer longer than the limit; without any of these it keeps waiting
Readline(b, eof) ==
    LET n == FirstNL(b) IN
    IF n > 0
    THEN IF n - 1 > Limit
         THEN [kind |-> "overrun", line |-> <<>>, rest |-> SubSeq(b, n + 1, Len(b))]
         ELSE [kind |-> "line", line |-> SubSeq(b, 1, n), rest |-> SubSeq(b, n + 1, Len(b))]
    ELSE IF Len(b) > Limit
    THEN [kind |-> "overrun", line |-> <<>>, rest |-> <<>>]
    ELSE IF eof
    THEN [kind |-> IF b = <<>> THEN "eof" ELSE "line", line |-> b, rest |-> <<>>]
    ELSE [kind |-> "wait", line |-> <<>>, rest |-> b]

\* line.decode(errors="replace").removesuffix("\n")
LogText(line) ==
    IF line # <<>> /\ line[Len(line)] = NL THEN SubSeq(line, 1, Len(line) - 1) ELSE line

\* a sink that puts the newest record first
EmittedFirst(records, text) == <<text>> \o records

\* logger.info: the handlers write the record at once, after those before it
Emitted(records, text) == Append(records, text)

\* both pumps handed stdout_buffer
BufferSlip(s) == "stdout"

\* the buffer run hands the pump of each stream
BufferOf(s) == s

\* a run that does not wait for the process
NoWait == TRUE

\* an exit-code record for every exit code
LogsExitAlways(rc) == TRUE

\* if returncode != 0: the exit-code record is logged
LogsExit(rc) == rc # <<0>>

\* await proc.wait() returns once the process has terminated
ProcWaitReturns == returncode # <<>>

InitRun ==
    /\ runPc = "start"
    /\ exited = <<>>
    /\ returncode = <<>>
    /\ written = [s \in Streams |-> <<>>]
    /\ pipe = [s \in Streams |-> <<>>]
    /\ closed = [s \in Streams |-> FALSE]
    /\ rbuf = [s \in Streams |-> <<>>]
    /\ reof = [s \in Streams |-> FALSE]
    /\ pump = [s \in Streams |-> "unborn"]
    /\ buffer = [s \in Streams |-> <<>>]
    /\ logged = [s \in Streams |-> <<>>]
    /\ advisory = 0
    /\ result = <<>>

\* run up to await asyncio.gather: the process is launched with both streams
\* piped, and one pump per stream is started
RunSpawn ==
    /\ runPc = "start"
    /\ runPc' = "gather"
    /\ pump' = [s \in Streams |-> "reading"]
    /\ UNCHANGED <<exited, returncode, written, pipe, closed, rbuf, reof, buffer, logged,
                   advisory, result>>
    /\ UNCHANGED notRun

\* a launch failure that run swallows, returning a Result without exit code
SpawnFailureSwallowed ==
    /\ runPc = "start"
    /\ runPc' = "returned"
    /\ result' = <<[returncode |-> <<>>]>>
    /\ UNCHANGED <<exited, returncode, written, pipe, closed, rbuf, reof, pump, buffer,
                   logged, advisory>>
    /\ UNCHANGED notRun

\* asyncio.create_subprocess_exec raises (no such executable, no permission)
RunSpawnFails ==
    /\ runPc = "start"
    /\ runPc' = "raised"
    /\ UNCHANGED <<exited, returncode, written, pipe, closed, rbuf, reof, pump, buffer,
                   logged, advisory, result>>
    /\ UNCHANGED notRun

\* the child (or a process that inherited the stream) writes a byte
ChildWrite(s, b) ==
    /\ pump[s] # "unborn"
    /\ ~closed[s]
    /\ Len(pipe[s]) < PipeCap
    /\ Len(written[s]) < MaxOut
    /\ pipe' = [pipe EXCEPT ![s] = Append(@, b)]
    /\ written' = [written EXCEPT ![s] = Append(@, b)]
    /\ UNCHANGED <<runPc, exited, returncode, closed, rbuf, reof, pump, buffer, logged,
                   advisory, result>>
    /\ UNCHANGED notRun

\* the last writer of a stream closes it
ChildClose(s) ==
    /\ pump[s] # "unborn"
    /\ ~closed[s]
    /\ closed' = [closed EXCEPT ![s] = TRUE]
    /\ UNCHANGED <<runPc, exited, returncode, written, pipe, rbuf, reof, pump, buffer, logged,
                   advisory, result>>
    /\ UNCHANGED notRun

\* the process terminates
ChildExit(c) ==
    /\ \A s \in Streams : pump[s] # "unborn"
    /\ exited = <<>>
    /\ exited' = <<c>>
    /\ UNCHANGED <<runPc, returncode, written, pipe, closed, rbuf, reof, pump, buffer,
                   logged, advisory, result>>
    /\ UNCHANGED notRun

\* the child watcher of the event loop reports the end of the process:
\* proc.returncode becomes its exit code
ProcessExited ==
    /\ exited # <<>>
    /\ returncode = <<>>
    /\ returncode' = exited
    /\ UNCHANGED <<runPc, exited, written, pipe, closed, rbuf, reof, pump, buffer,
                   logged, advisory, result>>
    /\ UNCHANGED notRun

\* the event loop moves bytes of a pipe into the buffer of its StreamReader;
\* it pauses reading the pipe while more than twice the limit is buffered
Feed(s, k) ==
    /\ pump[s] # "unborn"
    /\ k \in 1..Len(pipe[s])
    /\ Len(rbuf[s]) <= 2 * Limit
    /\ rbuf' = [rbuf EXCEPT ![s] = @ \o SubSeq(pipe[s], 1, k)]
    /\ pipe' = [pipe EXCEPT ![s] = SubSeq(@, k + 1, Len(@))]
    /\ UNCHANGED <<runPc, exited, returncode, written, closed, reof, pump, buffer, logged,
                   advisory, result>>
    /\ UNCHANGED notRun

\* the event loop sees the end of a closed and drained pipe
FeedEof(s) ==
    /\ closed[s]
    /\ pipe[s] = <<>>
    /\ ~reof[s]
    /\ reof' = [reof EXCEPT ![s] = TRUE]
    /\ UNCHANGED <<runPc, exited, returncode, written, pipe, closed, rbuf, pump, buffer, logged,
                   advisory, result>>
    /\ UNCHANGED notRun

\* _read_and_log_stream: readline gives a line; it is logged under the label
\* of the stream and appended to the buffer
PumpLine(s) ==
    /\ pump[s] = "reading"
    /\ LET r == Readline(rbuf[s], reof[s]) IN
        /\ r.kind = "line"
        /\ rbuf' = [rbuf EXCEPT ![s] = r.rest]
        /\ logged' = [logged EXCEPT ![s] = Emitted(@, LogText(r.line))]
        /\ buffer' = [buffer EXCEPT ![BufferOf(s)] = @ \o r.line]
    /\ UNCHANGED <<runPc, exited, returncode, written, pipe, closed, reof, pump, advisory, result>>
    /\ UNCHANGED notRun

\* _read_and_log_stream: readline gives b"" and the loop ends
PumpEof(s) ==
    /\ pump[s] = "reading"
    /\ Readline(rbuf[s], reof[s]).kind = "eof"
    /\ pump' = [pump EXCEPT ![s] = "done"]
    /\ UNCHANGED <<runPc, exited, returncode, written, pipe, closed, rbuf, reof, buffer, logged,
                   advisory, result>>
    /\ UNCHANGED notRun

\* _read_and_log_stream: readline raises ValueError, which ends the pump
PumpRaise(s) ==
    /\ pump[s] = "reading"
    /\ LET r == Readline(rbuf[s], reof[s]) IN
        /\ r.kind = "overrun"
        /\ rbuf' = [rbuf EXCEPT ![s] = r.rest]
    /\ pump' = [pump EXCEPT ![s] = "raised"]
    /\ UNCHANGED <<runPc, exited, returncode, written, pipe, closed, reof, buffer, logged,
                   advisory, result>>
    /\ UNCHANGED notRun

\* await asyncio.gather(...) of run returns: both pumps have ended
RunGathered ==
    /\ runPc = "gather"
    /\ \A s \in Streams : pump[s] = "done"
    /\ runPc' = "wait"
    /\ UNCHANGED <<exited, returncode, written, pipe, closed, rbuf, reof, pump, buffer, logged,
                   advisory, result>>
    /\ UNCHANGED notRun

\* await asyncio.gather(...) of run raises what a pump raised, at once; the
\* other pump is not cancelled
RunGatherRaises ==
    /\ runPc = "gather"
    /\ \E s \in Streams : pump[s] = "raised"
    /\ runPc' = "raised"
    /\ UNCHANGED <<exited, returncode, written, pipe, closed, rbuf, reof, pump, buffer, logged,
                   advisory, result>>
    /\ UNCHANGED notRun

\* await proc.wait() returns; a non-zero exit code is logged, and the Result
\* is returned (its stdout and stderr are the two bytearrays themselves)
RunReturn ==
    /\ runPc = "wait"
    /\ ProcWaitReturns
    /\ advisory' = IF LogsExit(returncode) THEN advisory + 1 ELSE advisory
    /\ result' = <<[returncode |-> returncode]>>
    /\ runPc' = "returned"
    /\ UNCHANGED <<exited, returncode, written, pipe, closed, rbuf, reof, pump, buffer, logged>>
    /\ UNCHANGED notRun

NextRun ==
    \/ RunSpawn
    \/ RunSpawnFails
    \/ \E s \in Streams : \E b \in Bytes : ChildWrite(s, b)
    \/ \E s \in Streams : ChildClose(s)
    \/ \E c \in ExitCodes : ChildExit(c)
    \/ ProcessExited
    \/ \E s \in Streams : \E k \in 1..PipeCap : Feed(s, k)
    \/ \E s \in Streams : FeedEof(s)
    \/ \E s \in Streams : PumpLine(s)
    \/ \E s \in Streams : PumpEof(s)
    \/ \E s \in Streams : PumpRaise(s)
    \/ RunGathered
    \/ RunGatherRaises
    \/ RunReturn

----------------------------------------------------------------------------
(* Logging of process launches: logging.py 72-73, 244-269 *)

\* None
None == "None"

\* the ways this program launches a process: run (and run_shell through it)
\* and job2's own asyncio.create_subprocess_exec
LaunchPaths == {"run", "job2"}

\* argument lists, by the type of their elements: run takes list[str | Path]
ArgLists == UNION {[1..n -> {"str", "PosixPath"}] : n \in 1..MaxArgv}

\* the launches: run hands its cwd and env on, job2 sets cwd and no env
Launches ==
    {c \in [path : LaunchPaths, args : ArgLists, cwd : {None, "dir"}, env : {None, "mapping"}] :
        c.path = "job2" => c.cwd = "dir" /\ c.env = None}

\* SubprocessArgs.__str__ of an argument list: shlex.join quotes every element
\* and raises TypeError on one that is no str
SubprocessArgsStr(args) ==
    IF \A i \in 1..Len(args) : args[i] = "str" THEN "joined" ELSE "TypeError"

\* a hook that names the working directory always
ExtraAlways(c) ==
    <<"cwd: %s">> \o (IF c.env # None THEN <<"env: %s">> ELSE <<>>)

\* log_subprocess_execs: extra_message_parts
ExtraMessageParts(c) ==
    (IF c.cwd # None THEN <<"cwd: %s">> ELSE <<>>)
        \o (IF c.env # None THEN <<"env: %s">> ELSE <<>>)

\* log_subprocess_execs on the event subprocess.Popen: logger.info of the
\* 'Running' record. A handler whose formatter raises writes nothing
\* (Handler.emit hands the exception to handleError).
LogSubprocessExecs(c) ==
    IF SubprocessArgsStr(c.args) = "TypeError"
    THEN <<>>
    ELSE <<[kind |-> "Running", extra |-> ExtraMessageParts(c)]>>

\* a launch that starts the process before the audit event is raised
ExecBeforeAudit(c) ==
    /\ audit.pc = "idle"
    /\ audit' = [audit EXCEPT !.pc = "running", !.call = c,
                              !.log = <<[kind |-> "launched", extra |-> <<>>]>>
                                        \o (IF audit.hook THEN LogSubprocessExecs(c) ELSE <<>>)]
    /\ UNCHANGED notAudit

\* subprocess.Popen raises the audit event subprocess.Popen with executable,
\* args, cwd and env, before it starts the process; the hook runs if
\* configure_logging added it
Popen(c) ==
    /\ audit.pc = "idle"
    /\ audit' = [audit EXCEPT !.pc = "audited", !.call = c,
                              !.log = IF audit.hook THEN LogSubprocessExecs(c) ELSE <<>>]
    /\ UNCHANGED notAudit

\* the process is started
Exec ==
    /\ audit.pc = "audited"
    /\ audit' = [audit EXCEPT !.pc = "running",
                              !.log = Append(@, [kind |-> "launched", extra |-> <<>>])]
    /\ UNCHANGED notAudit

\* the process cannot be started: the launch raises
ExecFails ==
    /\ audit.pc = "audited"
    /\ audit' = [audit EXCEPT !.pc = "failed"]
    /\ UNCHANGED notAudit

\* a record with output of the process is logged: a stream line by a pump of
\* run, the collected stderr by job2
OutputLogged ==
    /\ audit.pc = "running"
    /\ Len(SelectSeq(audit.log, LAMBDA e : e.kind = "output")) < MaxOut
    /\ audit' = [audit EXCEPT !.log = Append(@, [kind |-> "output", extra |-> <<>>])]
    /\ UNCHANGED notAudit

\* the launch is over; the next one may come
LaunchOver ==
    /\ audit.pc \in {"running", "failed"}
    /\ audit' = [audit EXCEPT !.pc = "idle", !.log = <<>>]
    /\ UNCHANGED notAudit

IdleAudit ==
    audit = [hook |-> TRUE, pc |-> "idle", log |-> <<>>,
             call |-> [path |-> "run", args |-> <<"str">>, cwd |-> None, env |-> None]]

\* configure_logging(..., subprocesses): if subprocesses, sys.addaudithook
InitAudit ==
    \E subprocesses \in BOOLEAN :
        audit = [hook |-> subprocesses, pc |-> "idle", log |-> <<>>,
                 call |-> [path |-> "run", args |-> <<"str">>, cwd |-> None, env |-> None]]

NextAudit ==
    \/ \E c \in Launches : Popen(c)
    \/ Exec
    \/ ExecFails
    \/ OutputLogged
    \/ LaunchOver

----------------------------------------------------------------------------
(* Levels of the loggers and of the handlers: logging.py 28-29, 48-62 *)

\* logging.NOTSET
NOTSET == 0

\* logging.DEBUG
DEBUG == 10

\* logging.WARNING
WARNING == 30

\* severities of records: the five of the logging module and one below DEBUG,
\* as logger.log(5, ...) gives
Severities == {5, 10, 20, 30, 40, 50}

\* the level argument of configure_logging
ConfigLevels == {0, 10, 20, 30, 40, 50}

\* the loggers records come from: those of this package, which have no level
\* of their own, and the one of asyncio
Loggers == {"loggingtalk", "asyncio"}

\* getEffectiveLevel of a logger after configure_logging: the root logger is
\* set to DEBUG, the logger of asyncio to WARNING unless PYTHONASYNCIODEBUG is
\* set
EffectiveLevel(logger, asyncioDebug) ==
    IF logger = "asyncio" /\ ~asyncioDebug THEN WARNING ELSE DEBUG

\* a level set on every handler
HandlerLevelAll(h, level) == level

\* the level of a handler: only stderr_handler.setLevel(level) is called
HandlerLevel(h, level) == IF h = "stderr_handler" THEN level ELSE NOTSET

\* Logger.log: a record is made and handed to the handlers of the root
\* logger if the logger is enabled for its level; each handler takes it if
\* the level of the record is at least its own
Delivered(logger, levelno, level, asyncioDebug) ==
    [h \in 1..Len(Handlers) |->
        /\ levelno >= EffectiveLevel(logger, asyncioDebug)
        /\ levelno >= HandlerLevel(Handlers[h], level)]

IdleLevel ==
    deliver = [level |-> DEBUG, asyncioDebug |-> FALSE, pc |-> "idle",
               logger |-> "loggingtalk", levelno |-> DEBUG,
               got |-> [h \in 1..Len(Handlers) |-> FALSE]]

\* configure_logging(level) in an environment with or without
\* PYTHONASYNCIODEBUG
InitLevel ==
    \E level \in ConfigLevels : \E asyncioDebug \in BOOLEAN :
        deliver = [level |-> level, asyncioDebug |-> asyncioDebug, pc |-> "idle",
                   logger |-> "loggingtalk", levelno |-> DEBUG,
                   got |-> [h \in 1..Len(Handlers) |-> FALSE]]

\* logger.log(levelno, ...) on a logger
LogAt(logger, levelno) ==
    /\ deliver.pc = "idle"
    /\ deliver' = [deliver EXCEPT
            !.pc = "logged", !.logger = logger, !.levelno = levelno,
            !.got = Delivered(logger, levelno, deliver.level, deliver.asyncioDebug)]
    /\ UNCHANGED notLevel

\* the call returns
LogAtReturn ==
    /\ deliver.pc = "logged"
    /\ deliver' = [deliver EXCEPT !.pc = "idle"]
    /\ UNCHANGED notLevel

NextLevel ==
    \/ \E logger \in Loggers : \E levelno \in Severities : LogAt(logger, levelno)
    \/ LogAtReturn

----------------------------------------------------------------------------
(* A job that awaits run: workload.py 58-62, 87-96, 108-109; subprocess.py 19-58 *)

\* the value of _current_prefix in a Context, "" when it has none
PrefixOf(value) == IF value = Missing THEN <<>> ELSE value

\* no call of run yet
NoRun ==
    [called |-> <<>>,
     pumpCtx |-> [s \in Streams |-> Missing],
     pumpPc |-> [s \in Streams |-> "unborn"],
     seen |-> {}]

\* the Context the pump Tasks of job j are created from: asyncio.gather makes
\* the Tasks inside run, which runs in the Task of the job
PumpContextFrom(j) == TaskContext(j)

IdleJobRun == runs = [j \in Jobs |-> NoRun]

\* the job calls run (complex_shell through run_shell): the launch raises the
\* audit event and log_subprocess_execs logs the 'Running' record in the Task
\* of the job
JobCallsRun(j) ==
    /\ jobPc[j] = "body"
    /\ \A s \in Streams : runs[j].pumpPc[s] = "unborn"
    /\ runs' = [runs EXCEPT
            ![j].called = FilterPrefix(TaskContext(j)),
            ![j].seen = @ \cup {[kind |-> "Running", prefix |-> FilterPrefix(TaskContext(j))]}]
    /\ jobPc' = [jobPc EXCEPT ![j] = "launch"]
    /\ UNCHANGED <<mainPc, results, ctx, frames, outcome, observed>>
    /\ UNCHANGED notJobRun

\* run reaches asyncio.gather: one Task per pump, each running in its own
\* copy of the Context that creates it
RunGathers(j) ==
    /\ jobPc[j] = "launch"
    /\ runs' = [runs EXCEPT
            ![j].pumpCtx = [s \in Streams |-> ctx[PumpContextFrom(j)]],
            ![j].pumpPc = [s \in Streams |-> "reading"]]
    /\ jobPc' = [jobPc EXCEPT ![j] = "run"]
    /\ UNCHANGED <<mainPc, results, ctx, frames, outcome, observed>>
    /\ UNCHANGED notJobRun

\* a pump logs a line of its stream: PrefixFilter reads the prefix in the
\* Context of the pump Task
PumpLogs(j, s) ==
    /\ runs[j].pumpPc[s] = "reading"
    /\ runs' = [runs EXCEPT
            ![j].seen = @ \cup {[kind |-> s, prefix |-> PrefixOf(runs[j].pumpCtx[s])]}]
    /\ UNCHANGED prefixVars
    /\ UNCHANGED notJobRun

\* a pump reads b"" and ends
PumpEnds(j, s) ==
    /\ runs[j].pumpPc[s] = "reading"
    /\ runs' = [runs EXCEPT ![j].pumpPc[s] = "done"]
    /\ UNCHANGED prefixVars
    /\ UNCHANGED notJobRun

\* both pumps ended and the process terminated: run logs the exit-code record
\* if the code is not zero, in the Task of the job, and returns to the job
RunReturns(j, nonzero) ==
    /\ jobPc[j] = "run"
    /\ \A s \in Streams : runs[j].pumpPc[s] = "done"
    /\ runs' = [runs EXCEPT
            ![j].seen = IF nonzero
                        THEN @ \cup {[kind |-> "exited",
                                      prefix |-> FilterPrefix(TaskContext(j))]}
                        ELSE @]
    /\ jobPc' = [jobPc EXCEPT ![j] = "body"]
    /\ UNCHANGED <<mainPc, results, ctx, frames, outcome, observed>>
    /\ UNCHANGED notJobRun

NextJobRun ==
    \/ Gather
    \/ \E j \in Jobs : RunJobEnter(j)
    \/ \E j \in Jobs : NestedEnter(j)
    \/ \E j \in Jobs : JobReturn(j)
    \/ \E j \in Jobs : JobRaise(j)
    \/ GatherDone
    \/ \E j \in Jobs : JobCallsRun(j)
    \/ \E j \in Jobs : RunGathers(j)
    \/ \E j \in Jobs : \E s \in Streams : PumpLogs(j, s)
    \/ \E j \in Jobs : \E s \in Streams : PumpEnds(j, s)
    \/ \E j \in Jobs : \E nonzero \in BOOLEAN : RunReturns(j, nonzero)

----------------------------------------------------------------------------
(* Specifications *)

\* the jobs of do_stuff and their prefixes
Init == InitPrefix /\ cfg = DefaultConfig /\ IdleFmt /\ IdleStyle /\ InitRun /\ IdleAudit /\ IdleLevel /\ IdleJobRun

Next == NextPrefix

Spec == Init /\ [][Next]_vars

\* log calls through the three handlers of configure_logging
InitLogging == InitPrefix /\ InitFmt /\ IdleStyle /\ InitRun /\ IdleAudit /\ IdleLevel /\ IdleJobRun

SpecFmt == InitLogging /\ [][NextFmt]_vars

\* styled segments on a terminal
InitTerminal == InitPrefix /\ cfg = DefaultConfig /\ IdleFmt /\ InitStyle /\ InitRun /\ IdleAudit /\ IdleLevel /\ IdleJobRun

SpecStyle == InitTerminal /\ [][NextStyle]_vars

\* one call of run
InitSubprocess == InitPrefix /\ cfg = DefaultConfig /\ IdleFmt /\ IdleStyle /\ InitRun /\ IdleAudit /\ IdleLevel /\ IdleJobRun

SpecRun == InitSubprocess /\ [][NextRun]_vars

\* the scheduling of one call of run: the event loop runs every callback and
\* every task that is ready, and the child closes its streams and exits
FairRun ==
    /\ \A s \in Streams :
          /\ WF_vars(ChildClose(s))
          /\ WF_vars(\E k \in 1..PipeCap : Feed(s, k))
          /\ WF_vars(FeedEof(s))
          /\ WF_vars(PumpLine(s))
          /\ WF_vars(PumpEof(s))
          /\ WF_vars(PumpRaise(s))
    /\ WF_vars(\E c \in ExitCodes : ChildExit(c))
    /\ WF_vars(ProcessExited)
    /\ WF_vars(RunGathered)
    /\ WF_vars(RunGatherRaises)
    /\ WF_vars(RunReturn)

SpecRunFair == InitSubprocess /\ [][NextRun]_vars /\ FairRun

\* process launches under the audit hook
InitLaunches == InitPrefix /\ cfg = DefaultConfig /\ IdleFmt /\ IdleStyle /\ InitRun /\ InitAudit /\ IdleLevel /\ IdleJobRun

SpecAudit == InitLaunches /\ [][NextAudit]_vars

\* records of every severity through the levels of loggers and handlers
InitSinks ==
    /\ InitPrefix /\ cfg = DefaultConfig /\ IdleFmt /\ IdleStyle /\ InitRun /\ IdleAudit
    /\ InitLevel /\ IdleJobRun

SpecSinks == InitSinks /\ [][NextLevel]_vars

\* the jobs of do_stuff, each awaiting one call of run
SpecJobRun == Init /\ [][NextJobRun]_vars

----------------------------------------------------------------------------
(* Properties of the prefix scopes and the aggregator *)

\* the texts of the open scopes, outermost first, concatenated
RECURSIVE PrefixesOf(_)
PrefixesOf(fs) ==
    IF fs = <<>> THEN <<>>
    ELSE PrefixesOf(SubSeq(fs, 1, Len(fs) - 1)) \o fs[Len(fs)].prefix

TokenGet(token) == IF token = Missing THEN <<>> ELSE token

Atoms(text) == {text[i] : i \in 1..Len(text)}

\* C1: in every task the active prefix is the concatenation of the texts of
\* its open scopes, outermost first: inside a scope it is the prefix that was
\* active around it (the one its token remembers) followed by its own text,
\* and with every scope left it is the value from before the outermost one.
C1_NestedPrefixCompose ==
    \A j \in Jobs :
        /\ PrefixGet(TaskContext(j)) = PrefixesOf(frames[j])
        /\ \A i \in 1..Len(frames[j]) :
              TokenGet(frames[j][i].token) = PrefixesOf(SubSeq(frames[j], 1, i - 1))
        /\ frames[j] = <<>> => ctx[TaskContext(j)] = ctx[0]

\* a job logged inside a scope nested in run_job's scope and has left both
C1_Witness ==
    \E j \in Jobs :
        /\ outcome[j] = "success"
        /\ observed[j].seen
        /\ observed[j].prefix = RunJobPrefix(j) \o NestedPrefix
        /\ ctx[TaskContext(j)] = Missing

\* C2: the prefix a job reads, and the one on every record it logs, never
\* contains the name a sibling job installed.
C2_SiblingsIsolated ==
    \A j \in Jobs : \A k \in Jobs \ {j} :
        /\ observed[j].seen => JobNames[k] \notin Atoms(observed[j].prefix)
        /\ jobPc[j] = "body" => JobNames[k] \notin Atoms(PrefixGet(TaskContext(j)))

\* two jobs are inside their scopes at once and both have logged
C2_Witness ==
    \E j \in Jobs : \E k \in Jobs \ {j} :
        /\ jobPc[j] = "body" /\ jobPc[k] = "body"
        /\ observed[j].seen /\ observed[k].seen
        /\ JobNames[j] \in Atoms(observed[j].prefix)
        /\ JobNames[k] \in Atoms(observed[k].prefix)

\* C3: when a job raises, at any nesting depth, the step that takes the
\* exception out of run_job leaves the prefix of that Context at the value it
\* had before run_job's scope was entered, with no scope left open, and the
\* exception is the outcome of the task; a scope left normally restores the
\* value its token remembers.
C3_ExitRestores ==
    [][\A j \in Jobs :
          /\ JobRaise(j) =>
                /\ ctx'[TaskContext(j)] = frames[j][1].token
                /\ frames'[j] = <<>>
                /\ outcome'[j] = "failure"
          /\ JobReturn(j) => ctx'[TaskContext(j)] = frames[j][1].token
          /\ NestedExit(j) =>
                ctx'[TaskContext(j)] = frames[j][Len(frames[j])].token]_vars

\* a job that had logged inside its scope has raised, and its prefix is gone
C3_Witness ==
    \E j \in Jobs :
        /\ outcome[j] = "failure"
        /\ observed[j].seen
        /\ observed[j].prefix # <<>>
        /\ PrefixGet(TaskContext(j)) = <<>>

\* C4: the await of gather completes only when every job task is done, it
\* never fails, and it yields for every job that job's own outcome.
C4_AggregatorCollectsAll ==
    /\ mainPc # "failed"
    /\ mainPc = "done" =>
          /\ DOMAIN results = Jobs
          /\ \A j \in Jobs :
                /\ jobPc[j] = "done"
                /\ outcome[j] \in {"success", "failure"}
                /\ results[j] = outcome[j]

\* the aggregator has completed with a failure and a success among the outcomes
C4_Witness ==
    /\ mainPc = "done"
    /\ \E j \in Jobs : results[j] = "failure"
    /\ \E j \in Jobs : results[j] = "success"

----------------------------------------------------------------------------
(* Properties of the formatter *)

HandlerIds == 1..Len(Handlers)

\* the handlers whose Formatter was built with include_color_escapes false
EscapesDisabled(h) == Handlers[h] = "plain_handler" \/ ~cfg.colors

\* what follows asctime, levelname and the prefix in a written line
MessagePart(h) ==
    SubSeq(sinkOut[h].line,
           Len(Header) + (IF cfg.prefixes THEN Len(record.prefix) ELSE 0) + 1,
           Len(sinkOut[h].line))

\* a text with its newlines as the formatter leaves them under cfg
AsWritten(text) ==
    [i \in 1..Len(text) |->
        IF cfg.replace_newlines /\ text[i] = NL THEN Glyph ELSE text[i]]

\* the style an argument of the log call asks for: the one of Format.apply,
\* else that of the earliest registry entry the value is an instance of
StylesFor(arg) ==
    IF arg.kind = "Formatted" THEN {arg.format}
    ELSE {registry[i].format :
            i \in {k \in 1..Len(registry) :
                     /\ IsInstance(arg.cls, registry[k].cls)
                     /\ \A e \in 1..(k - 1) : ~IsInstance(arg.cls, registry[e].cls)}}

HasAttribute(fmt) == fmt.color # 0 \/ \E f \in FlagSet : fmt[f]

\* a text between the opening sequence of a style and its matching reset
Wrapped(fmt, text) ==
    IF HasAttribute(fmt) THEN Escape(fmt) \o text \o Reset(fmt) ELSE text

\* the message expected on a sink with escapes: the literal pieces as they
\* are, and for the n-th conversion the text of the n-th argument, wrapped
\* when the argument has a style
RECURSIVE ExpectedStyled(_, _, _, _)
ExpectedStyled(tpl, i, items, n) ==
    IF i > Len(tpl) THEN <<>>
    ELSE IF tpl[i] \in PositionalConversions
    THEN LET arg == items[n + 1]
             text == IF tpl[i] = "%r" THEN ReprText(arg)
                     ELSE IF tpl[i] = "%.2s" THEN FirstTwoChars(arg.text)
                     ELSE arg.text
             styled == IF StylesFor(arg) = {} THEN text
                       ELSE Wrapped(CHOOSE st \in StylesFor(arg) : TRUE, text)
         IN styled \o ExpectedStyled(tpl, i + 1, items, n + 1)
    ELSE <<tpl[i]>> \o ExpectedStyled(tpl, i + 1, items, n)

\* C5: a line written by a handler whose formatter has escapes disabled holds
\* no escape sequence, whatever the styling of the arguments and whatever the
\* handlers before and after it did with the same record.
C5_PlainSinkHasNoEscapes ==
    \A h \in HandlerIds :
        (EscapesDisabled(h) /\ sinkOut[h].status = "written")
            => CSI \notin Atoms(sinkOut[h].line)

\* one record with a wrapped and a registry-matched argument: the handlers
\* before and after the plain one wrote escape sequences, the plain one none
C5_Witness ==
    /\ fpc = "logged"
    /\ record.args.kind = "tuple"
    /\ \E i \in 1..Len(record.args.items) : record.args.items[i].kind = "Formatted"
    /\ \E i \in 1..Len(record.args.items) : record.args.items[i].kind = "plain"
    /\ sinkOut[1].status = "written" /\ CSI \in Atoms(sinkOut[1].line)
    /\ sinkOut[2].status = "written" /\ CSI \notin Atoms(sinkOut[2].line)
    /\ sinkOut[3].status = "written" /\ CSI \in Atoms(sinkOut[3].line)

\* C6 as claimed: on a handler with escapes enabled, the message of a log call with
\* positional arguments is the template with, in place of each conversion,
\* the text of its argument, and that text stands between the opening
\* sequence of the argument's style and the matching reset of that style
\* whenever the argument is wrapped or is an instance of a registered class.
C6_StyledArgsAreWrapped ==
    \A h \in HandlerIds :
        (~EscapesDisabled(h) /\ record.args.kind = "tuple"
                /\ sinkOut[h].status = "written")
            => /\ \A i \in 1..Len(record.args.items) :
                     Cardinality(StylesFor(record.args.items[i])) <= 1
               /\ MessagePart(h)
                     = AsWritten(ExpectedStyled(record.msg, 1, record.args.items, 0))

\* the conversions of a template that cut the text of their argument
Cutting(tpl) == Len(SelectSeq(tpl, LAMBDA a : a = "%.2s"))

\* C6 as the code has it: the arguments are wrapped before msg % args, so the
\* claim holds for the conversions that take the whole text (%s, %r). A
\* conversion with a precision cuts the wrapped text, opening sequence
\* included: of a styled argument %.2s leaves the first two characters of the
\* opening sequence, and neither its text nor the reset.
C6_WrappedUnlessCut ==
    \A h \in HandlerIds :
        (~EscapesDisabled(h) /\ record.args.kind = "tuple"
                /\ sinkOut[h].status = "written")
            => /\ \A i \in 1..Len(record.args.items) :
                     Cardinality(StylesFor(record.args.items[i])) <= 1
               /\ Cutting(record.msg) = 0 =>
                     MessagePart(h)
                         = AsWritten(ExpectedStyled(record.msg, 1, record.args.items, 0))
               /\ (/\ record.msg = <<"%.2s">>
                   /\ \E st \in StylesFor(record.args.items[1]) : HasAttribute(st)) =>
                     MessagePart(h) = <<CSI>>

\* a line with escapes was written for a Path and a wrapped argument
C6_Witness ==
    /\ fpc = "logged"
    /\ record.args.kind = "tuple"
    /\ Len(record.args.items) = 2
    /\ record.args.items[1] = Plain("PosixPath", <<"/etc/lib.conf">>)
    /\ record.args.items[2].kind = "Formatted"
    /\ HasAttribute(record.args.items[2].format)
    /\ sinkOut[1].status = "written"
    /\ Len(SelectSeq(sinkOut[1].line, LAMBDA a : a = CSI)) = 4

\* the conversions of a template that take a positional argument
Positional(tpl) == Len(SelectSeq(tpl, LAMBDA a : a \in PositionalConversions))

Named(tpl) == Len(SelectSeq(tpl, LAMBDA a : a = "%(k)s"))

\* a tuple that does not match the template, a dict given to a template with
\* positional conversions, or args that are neither
Malformed(rec) ==
    \/ rec.args.kind = "other"
    \/ /\ rec.args.kind = "tuple"
       /\ Positional(rec.msg) # Len(rec.args.items) \/ Named(rec.msg) > 0
    \/ /\ rec.args.kind = "dict"
       /\ Positional(rec.msg) > 0

----------------------------------------------------------------------------
(* Properties of the style engine *)

\* the attributes a cell is shown with, as a Format would name them
ShownWith(cell, fmt) == cell.color = fmt.color /\ cell.flags = FlagsOf(fmt)

Intensity == {"bold", "dim"}

\* C7 as claimed: after the closing sequence of an inner segment every
\* attribute of the outer segment that the inner descriptor did not set is
\* still in effect.
C7_InnerResetKeepsOuter ==
    term.pc = "nested" =>
        LET after == term.cells[3] IN
        /\ \A f \in FlagsOf(term.outer) \ FlagsOf(term.inner) : f \in after.flags
        /\ (term.outer.color # 0 /\ term.inner.color = 0)
              => after.color = term.outer.color

\* C7 as the code has it: color, italic and underlined have a reset of their
\* own, bold and dim share reset 22. After the closing sequence of an inner
\* segment an attribute of the outer segment that the inner descriptor did
\* not set is still in effect, except bold or dim when the inner segment set
\* the other of the two; adjacent segments are shown with exactly their own
\* attributes, and after the last closing sequence nothing is in effect.
C7_InnerResetKeepsOuterButIntensity ==
    /\ term.pc = "nested" =>
          LET after == term.cells[3] IN
          /\ \A f \in FlagsOf(term.outer) \ FlagsOf(term.inner) :
                f \in after.flags
                    <=> ~(f \in Intensity /\ FlagsOf(term.inner) \cap Intensity # {})
          /\ (term.outer.color # 0 /\ term.inner.color = 0)
                => after.color = term.outer.color
          /\ ShownWith(term.cells[1], term.outer)
          /\ ShownWith(term.cells[4], NoFormat)
    /\ term.pc = "adjacent" =>
          /\ ShownWith(term.cells[1], term.outer)
          /\ ShownWith(term.cells[2], term.inner)
          /\ ShownWith(term.cells[3], NoFormat)

\* a bold segment closed inside a red italic one: red and italic go on
C7_Witness ==
    /\ term.pc = "nested"
    /\ term.outer = Format(1, FALSE, FALSE, TRUE, FALSE)
    /\ term.inner = Format(0, TRUE, FALSE, FALSE, FALSE)
    /\ term.cells[3].color = 1
    /\ term.cells[3].flags = {"italic"}

----------------------------------------------------------------------------
(* Properties of the subprocess wrapper *)

\* the Result of run: its stdout and stderr are the two bytearrays
ResultOf(field) == IF field = "returncode" THEN result[1].returncode ELSE buffer[field]

\* C9: when run returns, the stdout buffer of the result is exactly the byte
\* sequence written to the standard output of the child, in order, and the
\* stderr buffer exactly the one written to its standard error; until then
\* every byte written to a stream whose pump has not failed is, in order,
\* in the buffer of that stream, in its StreamReader or in its pipe, and in
\* no other place.
C9_BuffersEqualWhatChildWrote ==
    /\ runPc = "returned" =>
          \A s \in Streams : ResultOf(s) = written[s]
    /\ \A s \in Streams :
          pump[s] \in {"reading", "done"} => buffer[s] \o rbuf[s] \o pipe[s] = written[s]

\* run returned after the child wrote a last line without a newline to its
\* standard output and a line to its standard error
C9_Witness ==
    /\ runPc = "returned"
    /\ written["stdout"] = <<NL, "x">>
    /\ written["stderr"] = <<"x", NL>>
    /\ buffer["stdout"] = <<NL, "x">>
    /\ buffer["stderr"] = <<"x", NL>>
    /\ logged["stdout"] = << <<>>, <<"x">> >>

\* C10: run returns only after both pumps reached the end of their streams
\* and, awaited after that, the process has terminated; the exit code of the
\* result is the one the process ended with; and once run has returned no
\* stream-line record is logged and no byte is appended to a buffer.
C10_ReturnsAfterPumpsAndExit ==
    /\ [](runPc \in {"wait", "returned"} =>
            \A s \in Streams : pump[s] = "done" /\ reof[s] /\ rbuf[s] = <<>> /\ pipe[s] = <<>>)
    /\ [](runPc = "returned" =>
            /\ exited # <<>>
            /\ result # <<>>
            /\ ResultOf("returncode") = exited)
    /\ [](runPc # "returned" => result = <<>>)
    /\ [][runPc' = "returned" => runPc \in {"wait", "returned"}]_vars
    /\ [][runPc = "returned" =>
            /\ logged' = logged
            /\ buffer' = buffer
            /\ advisory' = advisory
            /\ result' = result
            /\ runPc' = runPc]_vars

\* run returned code 3 of a child that had written lines to both streams
C10_Witness ==
    /\ runPc = "returned"
    /\ exited = <<3>>
    /\ result = <<[returncode |-> <<3>>]>>
    /\ \A s \in Streams : buffer[s] # <<>> /\ logged[s] # <<>>

\* the pump of a stream is ready to take a step
PumpReady(s) == pump[s] = "reading" /\ Readline(rbuf[s], reof[s]).kind # "wait"

\* C11: the two pumps drain their streams independently, the child is never
\* blocked forever on a full pipe, and for every child that writes to the two
\* streams, closes them and exits, run eventually returns.
C11_RunEventuallyReturns ==
    /\ [][\A s \in Streams :
            (PumpReady(s) /\ rbuf'[s] = rbuf[s] /\ reof'[s] = reof[s] /\ pump'[s] = pump[s])
                => PumpReady(s)']_vars
    /\ \A s \in Streams : (Len(pipe[s]) = PipeCap) ~> (Len(pipe[s]) < PipeCap)
    /\ (runPc = "gather") ~> (runPc = "returned")

\* C11 without the children that write a line longer than the limit of the
\* StreamReader: a run whose pumps do not fail eventually returns
C11_ReturnsUnlessPumpFails ==
    /\ [][\A s \in Streams :
            (PumpReady(s) /\ rbuf'[s] = rbuf[s] /\ reof'[s] = reof[s] /\ pump'[s] = pump[s])
                => PumpReady(s)']_vars
    /\ \A s \in Streams : (Len(pipe[s]) = PipeCap) ~> (Len(pipe[s]) < PipeCap)
    /\ (runPc = "gather") ~> (runPc = "returned" \/ \E s \in Streams : pump[s] = "raised")

\* the child wrote more than the limit without a newline to its standard
\* output: that pump failed and run raised, while the other pump ended well
C11_Witness ==
    /\ runPc = "raised"
    /\ pump["stdout"] = "raised"
    /\ pump["stderr"] = "done"
    /\ Len(written["stdout"]) > Limit
    /\ FirstNL(written["stdout"]) = 0
    /\ exited # <<>>

\* C12: a non-zero exit code is no error outcome of run. Whatever the exit
\* code, run returns a Result carrying it, and run raises only when the launch
\* or a pump failed; the exit-code record is logged exactly once when the code
\* is not zero and not at all when it is zero, in the step in which run
\* returns, when both pumps have ended, so after every stream-line record.
C12_NonZeroExitIsAdvisory ==
    /\ [](runPc = "returned" =>
            /\ ResultOf("returncode") = exited
            /\ advisory = (IF exited = <<0>> THEN 0 ELSE 1))
    /\ [](runPc # "returned" => advisory = 0)
    /\ [](runPc = "raised" =>
            \/ \A s \in Streams : pump[s] = "unborn"
            \/ \E s \in Streams : pump[s] = "raised")
    /\ [][advisory' # advisory =>
            /\ \A s \in Streams : pump[s] = "done"
            /\ runPc' = "returned"
            /\ logged' = logged]_vars
    /\ [][advisory > 0 => logged' = logged /\ advisory' = advisory]_vars

\* run returned code 3 with one exit-code record logged after the lines of
\* both streams
C12_Witness ==
    /\ runPc = "returned"
    /\ exited = <<3>>
    /\ ResultOf("returncode") = <<3>>
    /\ advisory = 1
    /\ logged["stdout"] = << <<"x">> >>
    /\ logged["stderr"] = << <<"x">> >>

\* run after a launch that failed: it raised before any pump was started
LaunchFailed == runPc = "raised" /\ \A s \in Streams : pump[s] = "unborn"

\* C13: when the process cannot be launched, run (and run_shell, which only
\* builds the argument list and awaits run) raises the failure to its caller:
\* the call ends as raised and never as returned, no Result exists, no pump is
\* ever started, and no stream-line or exit-code record is logged for it.
C13_LaunchFailurePropagates ==
    /\ [](LaunchFailed =>
            /\ result = <<>>
            /\ advisory = 0
            /\ \A s \in Streams : logged[s] = <<>> /\ buffer[s] = <<>> /\ written[s] = <<>>)
    /\ [][LaunchFailed => LaunchFailed' /\ UNCHANGED runVars]_vars
    /\ [][runPc = "start" /\ runPc' # "start" =>
            \/ runPc' = "gather" /\ \A s \in Streams : pump'[s] = "reading"
            \/ LaunchFailed']_vars

\* the launch failed and run raised
C13_Witness ==
    /\ LaunchFailed
    /\ result = <<>>
    /\ exited = <<>>

----------------------------------------------------------------------------
(* Properties of the logging of process launches *)

\* positions of the records of one kind in the log of the launch
Positions(kind) == {i \in 1..Len(audit.log) : audit.log[i].kind = kind}

\* the launch has its one 'Running' record: it comes first, before the
\* process is started and before any of its output, and it names the working
\* directory and the environment exactly when the launch overrides them
RunningRecordFirst ==
    /\ Positions("Running") = {1}
    /\ ("cwd: %s" \in Atoms(audit.log[1].extra)) <=> (audit.call.cwd # None)
    /\ ("env: %s" \in Atoms(audit.log[1].extra)) <=> (audit.call.env # None)

\* C14: with the audit hook added by configure_logging, every launch, through
\* run or by job2's own spawn, has one 'Running' record in the sinks from the
\* moment before the process is started, so before any output of the process
\* is logged; it names cwd and env exactly when they are overridden.
C14_EveryLaunchIsLogged ==
    (audit.hook /\ audit.pc \in {"audited", "running", "failed"}) => RunningRecordFirst

\* C14 as the code has it: the record is written when every element of the
\* argument list is a str; a list with a Path element, which run accepts,
\* makes the rendering of the record raise in every handler and the launch
\* goes on with no 'Running' record. Without the hook there is none either.
C14_LaunchOfStringsIsLogged ==
    audit.pc \in {"audited", "running", "failed"} =>
        IF audit.hook /\ SubprocessArgsStr(audit.call.args) = "joined"
        THEN RunningRecordFirst
        ELSE Positions("Running") = {}

\* run with a Path as the program: the process runs and its output is
\* logged, and no 'Running' record was written
C14_Witness ==
    /\ audit.hook
    /\ audit.pc = "running"
    /\ audit.call.path = "run"
    /\ audit.call.args = <<"PosixPath", "str">>
    /\ Positions("Running") = {}
    /\ Positions("launched") = {1}
    /\ Positions("output") # {}

----------------------------------------------------------------------------
(* Properties of the levels *)

\* the sink of a handler got the record
Got(name) == \E h \in 1..Len(Handlers) : Handlers[h] = name /\ deliver.got[h]

\* both file sinks got the record, the terminal sink if and only if the
\* severity of the record is at least the configured level
FilesAlwaysTerminalByLevel ==
    /\ Got("file_handler")
    /\ Got("plain_handler")
    /\ Got("stderr_handler") <=> deliver.levelno >= deliver.level

\* C15: after configure_logging(level) both file sinks receive every record
\* whatever its severity and the level, and the terminal sink receives it if
\* and only if its severity is at least the level.
C15_FileSinksGetEveryRecord ==
    deliver.pc = "logged" => FilesAlwaysTerminalByLevel

\* C15 as the code has it: the root logger is set to DEBUG and the logger of
\* asyncio to WARNING, so a record below the level of its logger reaches no
\* sink; every other record reaches both file sinks, and the terminal sink
\* if and only if its severity is at least the configured level.
C15_EnabledRecordsReachFileSinks ==
    deliver.pc = "logged" =>
        IF deliver.levelno >= EffectiveLevel(deliver.logger, deliver.asyncioDebug)
        THEN FilesAlwaysTerminalByLevel
        ELSE \A h \in 1..Len(Handlers) : ~deliver.got[h]

\* a debug record under level WARNING: in both files, not on the terminal
C15_Witness ==
    /\ deliver.pc = "logged"
    /\ deliver.level = WARNING
    /\ deliver.logger = "loggingtalk"
    /\ deliver.levelno = DEBUG
    /\ Got("file_handler")
    /\ Got("plain_handler")
    /\ ~Got("stderr_handler")

----------------------------------------------------------------------------
(* Properties of the newline replacement *)

\* the line of handler h before the newlines are replaced: asctime and
\* levelname, the prefix, and the message with its arguments substituted
Rendered(h) ==
    Header \o (IF cfg.prefixes THEN record.prefix ELSE <<>>)
           \o GetMessage(record, registry, UseColorSet(Handlers[h], cfg)).text

\* C16: with replace_newlines every newline of the rendered line, whether it
\* comes from the template or from a substituted argument, is replaced by the
\* one glyph and the written line holds no newline; without it the written
\* line is the rendered line, newlines included. Position by position the two
\* differ in nothing else.
C16_NewlinesReplaced ==
    \A h \in HandlerIds :
        sinkOut[h].status = "written" =>
            LET line == sinkOut[h].line
                raw == Rendered(h)
            IN /\ Len(line) = Len(raw)
               /\ \A i \in 1..Len(raw) :
                     line[i] = IF cfg.replace_newlines /\ raw[i] = NL THEN Glyph ELSE raw[i]
               /\ cfg.replace_newlines => NL \notin Atoms(line)
               /\ ~cfg.replace_newlines =>
                     Len(SelectSeq(line, LAMBDA a : a = NL))
                         = Len(SelectSeq(raw, LAMBDA a : a = NL))

\* a template with a newline and a str argument with a newline, with
\* replacement: the line holds the glyph twice and no newline
C16_Witness ==
    /\ fpc = "logged"
    /\ cfg.replace_newlines
    /\ record.msg = <<NL, "%s">>
    /\ record.args = [kind |-> "tuple", items |-> <<Plain("str", <<"a", NL, "b">>)>>]
    /\ \A h \in HandlerIds :
          /\ sinkOut[h].status = "written"
          /\ Len(SelectSeq(sinkOut[h].line, LAMBDA a : a = Glyph)) = 2
          /\ NL \notin Atoms(sinkOut[h].line)

----------------------------------------------------------------------------
(* The colored file and the plain file *)

\* the pieces between CSI and the final m of an escape sequence of a style
SgrPieces == {"1", "2", "3", "4", "22", "23", "24", "39", ";"}
                \cup {ColorCode(c) : c \in Colors}

\* the position of the m that ends the escape sequence starting at i, or 0
RECURSIVE EndOfEscape(_, _)
EndOfEscape(line, k) ==
    IF k > Len(line) THEN 0
    ELSE IF line[k] = "m" THEN k
    ELSE IF line[k] \in SgrPieces THEN EndOfEscape(line, k + 1)
    ELSE 0

\* a line without its escape and reset sequences (ESC [ parameters m)
RECURSIVE StripEscapes(_, _)
StripEscapes(line, i) ==
    IF i > Len(line) THEN <<>>
    ELSE IF line[i] = CSI /\ EndOfEscape(line, i + 1) > 0
    THEN StripEscapes(line, EndOfEscape(line, i + 1) + 1)
    ELSE <<line[i]>> \o StripEscapes(line, i + 1)

\* the lines of the colored file and of the plain file
ColoredLine == sinkOut[1]

PlainLine == sinkOut[2]

\* C17: one record reaches the colored file and the plain file alike, and the
\* colored line without its escape and reset sequences is exactly the plain
\* line, timestamp included, for every mix of plain, registry-matched and
\* wrapped arguments.
C17_ColoredMinusEscapesIsPlain ==
    fpc = "logged" =>
        /\ ColoredLine.status = PlainLine.status
        /\ ColoredLine.status = "written" =>
              StripEscapes(ColoredLine.line, 1) = PlainLine.line

\* C17 as the code has it: it holds for the conversions that take the whole
\* text of their argument; the colored line and the plain line of a record
\* with a cutting conversion differ when the argument is styled.
C17_SameTextUnlessCut ==
    fpc = "logged" =>
        /\ ColoredLine.status = PlainLine.status
        /\ (ColoredLine.status = "written" /\ Cutting(record.msg) = 0) =>
              StripEscapes(ColoredLine.line, 1) = PlainLine.line
        /\ (/\ cfg.colors
            /\ record.msg = <<"%.2s">>
            /\ record.args.kind = "tuple"
            /\ Len(record.args.items) = 1
            /\ \E st \in StylesFor(record.args.items[1]) : HasAttribute(st)) =>
              StripEscapes(ColoredLine.line, 1) # PlainLine.line

\* "%.2s" of a Path: the colored file has the start of an escape sequence,
\* the plain file the first two characters of the path
C17_Witness ==
    /\ fpc = "logged"
    /\ cfg.colors
    /\ record.msg = <<"%.2s">>
    /\ record.args = [kind |-> "tuple", items |-> <<Plain("PosixPath", <<"/etc/lib.conf">>)>>]
    /\ ColoredLine.status = "written"
    /\ PlainLine.status = "written"
    /\ MessagePart(1) = <<CSI>>
    /\ MessagePart(2) = <<"/e">>

----------------------------------------------------------------------------
(* Properties of the prefix of a job that awaits run *)

\* the text begins with the prefix
StartsWith(text, prefix) ==
    Len(text) >= Len(prefix) /\ SubSeq(text, 1, Len(prefix)) = prefix

\* C18: every record logged for the call of run a job awaits inside run_job
\* (the 'Running' record of the launch, the stream lines of both pumps, the
\* exit-code record) carries the prefix the job had when it called run: its
\* own run_job prefix, with what the job itself nested inside, and nothing
\* of another job, however the jobs and the pumps interleave.
C18_PumpRecordsCarryJobPrefix ==
    \A j \in Jobs :
        /\ \A r \in runs[j].seen :
              /\ r.prefix = runs[j].called
              /\ StartsWith(r.prefix, RunJobPrefix(j))
              /\ \A k \in Jobs \ {j} : JobNames[k] \notin Atoms(r.prefix)
        /\ jobPc[j] \in {"launch", "run"} =>
              runs[j].called = FilterPrefix(TaskContext(j))
        /\ \A s \in Streams :
              runs[j].pumpPc[s] # "unborn" => PrefixOf(runs[j].pumpCtx[s]) = runs[j].called

\* two jobs await run at once and all four kinds of record of each were
\* logged, the second job's from inside a nested scope
C18_Witness ==
    /\ \A j \in Jobs : {r.kind : r \in runs[j].seen} = {"Running", "stdout", "stderr", "exited"}
    /\ runs[1].called = RunJobPrefix(1)
    /\ runs[2].called = RunJobPrefix(2) \o NestedPrefix
    /\ \A j \in Jobs : \A r \in runs[j].seen : r.prefix = runs[j].called

\* the lines of a byte sequence, without their newlines; what follows the
\* last newline is a line if it is not empty
RECURSIVE LinesOf(_)
LinesOf(b) ==
    IF b = <<>> THEN <<>>
    ELSE LET n == FirstNL(b) IN
         IF n = 0 THEN <<b>>
         ELSE <<SubSeq(b, 1, n - 1)>> \o LinesOf(SubSeq(b, n + 1, Len(b)))

\* C19: for each stream the records logged under its label are, one for one
\* and in order, the lines read from it: a line is logged once, in the step
\* in which it is appended to the buffer, after the records of the lines
\* before it, and what was read is the beginning of what was written. The
\* records of the two streams are logged in either order.
C19_StreamRecordsInLineOrder ==
    /\ [](\A s \in Streams :
            /\ logged[s] = LinesOf(buffer[s])
            /\ pump[s] # "raised" => StartsWith(written[s], buffer[s]))
    /\ [][\A s \in Streams :
            logged'[s] # logged[s] =>
                /\ Len(buffer'[s]) > Len(buffer[s])
                /\ logged'[s] = Append(logged[s],
                                       LogText(SubSeq(buffer'[s], Len(buffer[s]) + 1,
                                                      Len(buffer'[s]))))
                /\ StartsWith(buffer'[s], buffer[s])
                /\ \A o \in Streams \ {s} : logged'[o] = logged[o] /\ buffer'[o] = buffer[o]]_vars

\* the line of stderr is logged while the line the child wrote to stdout,
\* an empty line and then a line without newline, is still unread
C19_Witness ==
    /\ written["stdout"] = <<NL, "x">>
    /\ logged["stdout"] = <<>>
    /\ written["stderr"] = <<"x", NL>>
    /\ logged["stderr"] = << <<"x">> >>

\* both lines of stdout are logged, in the order they were written, before
\* the line of stderr
C19_WitnessOtherOrder ==
    /\ written["stdout"] = <<NL, "x">>
    /\ logged["stdout"] = << <<>>, <<"x">> >>
    /\ written["stderr"] = <<"x", NL>>
    /\ logged["stderr"] = <<>>

----------------------------------------------------------------------------
(* Properties of the style resolution *)

\* the entries of the registry a value of the class is an instance of
Matching(vcls) == {i \in 1..Len(registry) : IsInstance(vcls, registry[i].cls)}

\* C20: on a handler with escapes, a positional argument that is a Formatted
\* is shown in its own style, whatever the registry holds for its class;
\* another argument is shown in the style of the entry registered earliest
\* among those its class matches; an argument that matches none is shown as
\* it is. format_in_logs only appends to the registry: the entries before it
\* stay, in their order.
C20_FirstRegisteredStyleWins ==
    /\ [](\A h \in HandlerIds :
            (/\ ~EscapesDisabled(h)
             /\ sinkOut[h].status = "written"
             /\ record.msg = <<"%s">>
             /\ record.args.kind = "tuple") =>
                LET arg == record.args.items[1] IN
                IF arg.kind = "Formatted"
                THEN MessagePart(h) = AsWritten(Wrapped(arg.format, arg.text))
                ELSE IF Matching(arg.cls) = {}
                THEN MessagePart(h) = AsWritten(arg.text)
                ELSE \E i \in Matching(arg.cls) :
                        /\ \A k \in Matching(arg.cls) : i <= k
                        /\ MessagePart(h) = AsWritten(Wrapped(registry[i].format, arg.text)))
    /\ [][/\ Len(registry') >= Len(registry)
          /\ SubSeq(registry', 1, Len(registry)) = registry]_vars
    /\ [](SubSeq(registry, 1, Len(FORMATS0)) = FORMATS0)

\* PosixPath was registered as bold after Path as cyan: a PosixPath argument
\* is written in cyan and not in bold
C20_Witness ==
    /\ fpc = "logged"
    /\ Len(registry) = Len(FORMATS0) + 1
    /\ registry[Len(registry)].cls = "PosixPath"
    /\ record.msg = <<"%s">>
    /\ record.args = [kind |-> "tuple", items |-> <<Plain("PosixPath", <<"/etc/lib.conf">>)>>]
    /\ sinkOut[1].status = "written"
    /\ MessagePart(1) = <<CSI, "36", "m", "/etc/lib.conf", CSI, "39", "m">>

====
